---- MODULE Spec2Model ----
(***************************************************************************)
(* A model of py_teamup_api/teamup_api.py: the TeamUP client, its nested   *)
(* CalendarEvent dataclass and RecurringDeletion enumeration.              *)
(*                                                                         *)
(* Python values whose type varies are tagged by a one-field record:       *)
(*   None            [py |-> "NoneType"]                                   *)
(*   a str s         [str |-> s]                                           *)
(*   an int n        [int |-> n]                                           *)
(*   a dict d        [dict |-> d]     (d a record keyed by the dict's keys)*)
(*   a list l        [list |-> l]     (l a sequence)                       *)
(* Values whose type is fixed by the code (method, url, header values)     *)
(* are plain strings.                                                      *)
(***************************************************************************)
EXTENDS Integers, Sequences, FiniteSets, TLC

VARIABLES
    env,        \* the process environment: the two secrets as os.getenv sees them
    module,     \* "unimported" | "imported" | "EnvironmentError"
    client,     \* the TeamUP instance: [exists, base_url, headers]
    nCalls,     \* public operations called that reached _request
    nRequests,  \* calls of requests.request made so far
    call,       \* the last public operation called and its arguments
    argAfter,   \* the caller's argument objects as they are after that call
    issued,     \* the requests that call handed to requests.request
    transport,  \* what the transport did with them (a response, or a failure)
    outcome,    \* how the last public operation ended: a return or a raise
    clock,      \* the wall clock datetime.now() reads
    event,      \* the CalendarEvent the caller holds
    built,      \* that event as constructed, and the clock readings used
    serialized  \* the last result of event.to_dict()

clientVars == <<env, module, client, nCalls, nRequests, call, argAfter,
                issued, transport, outcome>>
eventVars == <<clock, event, built, serialized>>
vars == <<env, module, client, nCalls, nRequests, call, argAfter,
          issued, transport, outcome, clock, event, built, serialized>>

---------------------------------------------------------------------------
(* Bounds of the model. *)

\* public operations called on one client
MaxCalls == 2
\* subcalendar records in one API answer
MaxSubs == 2
\* days the wall clock runs through
MaxDays == 2

---------------------------------------------------------------------------
(* Python values. *)

None == [py |-> "NoneType"]
PyStr(s) == [str |-> s]
PyInt(n) == [int |-> n]
PyDict(d) == [dict |-> d]
PyList(l) == [list |-> l]

IsNone(v) == DOMAIN v = {"py"}
IsStr(v) == DOMAIN v = {"str"}
IsInt(v) == DOMAIN v = {"int"}
IsDict(v) == DOMAIN v = {"dict"}
IsList(v) == DOMAIN v = {"list"}

\* `not x` of Python for an Optional[str]: None and "" are falsy.
Falsy(v) == IsNone(v) \/ (IsStr(v) /\ v.str = "")

\* sub occurs in s
Contains(s, sub) ==
    \E i \in 1..(Len(s) - Len(sub) + 1) : SubSeq(s, i, i + Len(sub) - 1) = sub

---------------------------------------------------------------------------
(* datetime: the naive datetimes of the standard library, as records. *)

datetime(y, mo, d, h, mi, s, us) ==
    [year |-> y, month |-> mo, day |-> d, hour |-> h, minute |-> mi,
     second |-> s, microsecond |-> us]

IsDatetime(v) == "year" \in DOMAIN v

\* datetime.replace(hour=, minute=, second=, microsecond=)
replace(dt, h, mi, s, us) ==
    [dt EXCEPT !.hour = h, !.minute = mi, !.second = s, !.microsecond = us]

date(dt) == <<dt.year, dt.month, dt.day>>

\* the order of naive datetimes: lexicographic on the seven fields
DtKey(dt) ==
    <<dt.year, dt.month, dt.day, dt.hour, dt.minute, dt.second, dt.microsecond>>

RECURSIVE LexLess(_, _)
LexLess(a, b) ==
    IF a = <<>> THEN FALSE
    ELSE IF Head(a) # Head(b) THEN Head(a) < Head(b)
    ELSE LexLess(Tail(a), Tail(b))

DtLess(a, b) == LexLess(DtKey(a), DtKey(b))
DtLeq(a, b) == a = b \/ DtLess(a, b)

\* "%0<w>d" % n
ZeroPad(n, w) ==
    LET s == ToString(n)
    IN  IF Len(s) >= w THEN s ELSE SubSeq("000000", 1, w - Len(s)) \o s

\* datetime.isoformat(): YYYY-MM-DDTHH:MM:SS, and .ffffff when microsecond # 0
isoformat(dt) ==
    ZeroPad(dt.year, 4) \o "-" \o ZeroPad(dt.month, 2) \o "-" \o ZeroPad(dt.day, 2)
    \o "T" \o ZeroPad(dt.hour, 2) \o ":" \o ZeroPad(dt.minute, 2) \o ":"
    \o ZeroPad(dt.second, 2)
    \o (IF dt.microsecond # 0 THEN "." \o ZeroPad(dt.microsecond, 6) ELSE "")

---------------------------------------------------------------------------
(* TeamUP.CalendarEvent *)

EventFields ==
    {"subcalendar_ids", "title", "start_dt", "end_dt", "all_day", "rrule",
     "notes", "location", "who", "signup_enabled", "comments_enabled", "custom"}

\* the marker of a parameter the caller did not supply
MISSING == [py |-> "MISSING"]

\* default_factory of start_dt, with the clock reading `now`
default_start_dt(now) == replace(now, 0, 0, 0, 0)

\* default_factory of end_dt, with the clock reading `now`
default_end_dt(now) == replace(now, 23, 59, 59, 0)

\* The generated __init__: fields are set in declaration order, so the
\* factory of start_dt reads the clock (now1) before that of end_dt (now2).
\* kw carries the optional fields the caller may give.
CalendarEvent(subcalendar_ids, title, start_dt, end_dt, kw, now1, now2) ==
    [cls |-> "CalendarEvent",
     fields |->
        [subcalendar_ids |-> subcalendar_ids,
         title |-> title,
         start_dt |-> IF start_dt = MISSING THEN default_start_dt(now1) ELSE start_dt,
         end_dt |-> IF end_dt = MISSING THEN default_end_dt(now2) ELSE end_dt,
         all_day |-> IF "all_day" \in DOMAIN kw THEN kw.all_day ELSE FALSE,
         rrule |-> IF "rrule" \in DOMAIN kw THEN kw.rrule ELSE None,
         notes |-> IF "notes" \in DOMAIN kw THEN kw.notes ELSE None,
         location |-> IF "location" \in DOMAIN kw THEN kw.location ELSE None,
         who |-> IF "who" \in DOMAIN kw THEN kw.who ELSE None,
         signup_enabled |->
            IF "signup_enabled" \in DOMAIN kw THEN kw.signup_enabled ELSE FALSE,
         comments_enabled |->
            IF "comments_enabled" \in DOMAIN kw THEN kw.comments_enabled ELSE FALSE,
         custom |-> IF "custom" \in DOMAIN kw THEN kw.custom ELSE None]]

\* dataclasses.asdict: a new dict of every field (a deep copy; values are
\* values here, so the copy equals the original)
asdict(self) ==
    [subcalendar_ids |-> self.fields.subcalendar_ids,
     title |-> self.fields.title,
     start_dt |-> self.fields.start_dt,
     end_dt |-> self.fields.end_dt,
     all_day |-> self.fields.all_day,
     rrule |-> self.fields.rrule,
     notes |-> self.fields.notes,
     location |-> self.fields.location,
     who |-> self.fields.who,
     signup_enabled |-> self.fields.signup_enabled,
     comments_enabled |-> self.fields.comments_enabled,
     custom |-> self.fields.custom]

\* a to_dict that converts start_dt and forgets end_dt
to_dict_start_only(self) ==
    LET event_dict == asdict(self)
    IN  IF IsDatetime(event_dict["start_dt"])
        THEN [event_dict EXCEPT !["start_dt"] = PyStr(isoformat(event_dict["start_dt"]))]
        ELSE event_dict

\* CalendarEvent.to_dict: the returned mapping
to_dict(self) ==
    LET event_dict == asdict(self)
        d1 == IF IsDatetime(event_dict["start_dt"])
              THEN [event_dict EXCEPT !["start_dt"] = PyStr(isoformat(event_dict["start_dt"]))]
              ELSE event_dict
        d2 == IF IsDatetime(d1["end_dt"])
              THEN [d1 EXCEPT !["end_dt"] = PyStr(isoformat(d1["end_dt"]))]
              ELSE d1
    IN  d2

\* a to_dict that converts the fields of self in place
to_dict_self_in_place(self) ==
    [self EXCEPT !.fields.start_dt = PyStr(isoformat(self.fields.start_dt)),
                 !.fields.end_dt = PyStr(isoformat(self.fields.end_dt))]

\* CalendarEvent.to_dict: the receiver after the call (every assignment of
\* to_dict is to the copy asdict made, none to self)
to_dict_self(self) == self

---------------------------------------------------------------------------
(* TeamUP.RecurringDeletion *)

SINGLE == [name |-> "SINGLE", value |-> PyStr("single")]
FUTURE == [name |-> "FUTURE", value |-> PyStr("future")]
ALL == [name |-> "ALL", value |-> PyStr("all")]
RecurringDeletion == {SINGLE, FUTURE, ALL}

---------------------------------------------------------------------------
(* Module level: the secrets. *)

MAIN_CALENDAR_IDENTIFIER == "zrqurm"

\* os.getenv: None for a variable that is not set
getenv(name) == env[name]

TEAMUP_TOKEN == getenv("TEAMUP_TOKEN")
TEAMUP_BEARER_TOKEN == getenv("TEAMUP_BEARER_TOKEN")

\* a check that tests `is None` where the code tests truth
secrets_missing_is_none == IsNone(TEAMUP_TOKEN) \/ IsNone(TEAMUP_BEARER_TOKEN)

\* the condition of the module-level check
secrets_missing == Falsy(TEAMUP_TOKEN) \/ Falsy(TEAMUP_BEARER_TOKEN)

---------------------------------------------------------------------------
(* Outcomes of a call, and what the transport can do with a request. *)

Return(v) == [kind |-> "return", exc |-> "", value |-> v, message |-> ""]
Raise(exc, msg) == [kind |-> "raise", exc |-> exc, value |-> None, message |-> msg]

NoOutcome == [kind |-> "none", exc |-> "", value |-> None, message |-> ""]
NoCall == [op |-> "", args |-> <<>>]

StatusCodes == {100, 200, 299, 300, 399, 400, 404, 500, 599}

Subcalendar(id, name) == PyDict([id |-> PyInt(id), name |-> PyStr(name)])

\* two records of one name, and one whose name differs from it in case only
SubcalendarRecords ==
    {Subcalendar(1, "habit"), Subcalendar(2, "habit"), Subcalendar(3, "Habit")}

RECURSIVE SeqsUpTo(_, _)
SeqsUpTo(S, n) ==
    IF n = 0 THEN {<<>>}
    ELSE LET shorter == SeqsUpTo(S, n - 1)
         IN  shorter \cup {Append(q, x) : q \in shorter, x \in S}

SubcalendarLists == SeqsUpTo(SubcalendarRecords, MaxSubs)

\* the JSON text of a list of subcalendar records
RECURSIVE DumpsRecords(_)
DumpsRecords(l) ==
    IF l = <<>> THEN ""
    ELSE "{\"id\": " \o ToString(Head(l).dict.id.int) \o ", \"name\": \""
         \o Head(l).dict.name.str \o "\"}"
         \o (IF Tail(l) = <<>> THEN "" ELSE ", ") \o DumpsRecords(Tail(l))

JsonBody(text, value) ==
    [text |-> text, decodable |-> TRUE, json |-> value, decode_exc |-> ""]

\* A body that is not JSON. response.json() raises JSONDecodeError, which is a
\* RequestException in requests >= 2.27 and a plain ValueError before: the
\* installed library decides.
TextBody(text, decode_exc) ==
    [text |-> text, decodable |-> FALSE, json |-> None, decode_exc |-> decode_exc]

ListBodies ==
    {JsonBody("{\"subcalendars\": [" \o DumpsRecords(l) \o "]}",
              PyDict([subcalendars |-> PyList(l)])) : l \in SubcalendarLists}

Bodies ==
    {JsonBody("{\"undo_id\": \"u123\"}", PyDict([undo_id |-> PyStr("u123")])),
     JsonBody("{\"events\": [{\"id\": 1, \"title\": \"Standup\"}]}",
              PyDict([events |-> PyList(<<PyDict([id |-> PyInt(1),
                                                  title |-> PyStr("Standup")])>>)])),
     JsonBody("{\"error\": {\"id\": \"not_found\"}}",
              PyDict([error |-> PyDict([id |-> PyStr("not_found")])]))}
    \cup
    {TextBody("<html>Bad Gateway</html>", x) : x \in {"RequestException", "ValueError"}}

NoBody == TextBody("", "")

Response(status_code, body) ==
    [kind |-> "response", status_code |-> status_code, body |-> body,
     exc |-> "", message |-> ""]

Responses == {Response(c, b) : c \in StatusCodes, b \in Bodies}

\* answers to GET <id>/subcalendars
ListResponses == {Response(200, b) : b \in ListBodies}

\* requests.request raising instead of returning: no response exists
Failures ==
    {[kind |-> "failure", status_code |-> 0, body |-> NoBody,
      exc |-> "ReadTimeout",
      message |-> "HTTPSConnectionPool(host='api.teamup.com', port=443): Read timed out. (read timeout=20.0)"],
     [kind |-> "failure", status_code |-> 0, body |-> NoBody,
      exc |-> "ConnectionError",
      message |-> "HTTPSConnectionPool(host='api.teamup.com', port=443): Max retries exceeded"]}

Transports == Responses \cup Failures
SubcalendarTransports == Transports \cup ListResponses
NoTransport == [kind |-> "none", status_code |-> 0, body |-> NoBody, exc |-> "", message |-> ""]

---------------------------------------------------------------------------
(* class TeamUP *)

_BASE_URL == "https://api.teamup.com/"

\* the timeout of every request, in seconds
REQUEST_TIMEOUT == 20

NoClient == [exists |-> FALSE, base_url |-> _BASE_URL, headers |-> <<>>]

\* TeamUP.__init__
TeamUP_init ==
    [exists |-> TRUE,
     base_url |-> _BASE_URL,
     headers |-> ("Teamup-Token" :> TEAMUP_TOKEN.str)
                 @@ ("Accept" :> "application/json")
                 @@ ("Authorization" :> ("Bearer " \o TEAMUP_BEARER_TOKEN.str))]

\* a check that raises for server errors only
raises_for_status_5xx(status_code) == 500 <= status_code /\ status_code < 600

\* Response.raise_for_status raises HTTPError for these codes
raises_for_status(status_code) == 400 <= status_code /\ status_code < 600

\* the message of the error _request raises
failure_message(method, url, response) ==
    "Failed to " \o method \o " for url -> " \o url \o ": "
    \o ToString(response.status_code) \o " - " \o response.body.text

\* a _request that tries once more when the transport fails
requests_issued_retry(req, t) == IF t.kind = "failure" THEN <<req, req>> ELSE <<req>>

\* requests made by one call of _request with the transport acting as t
requests_issued(req, t) == <<req>>

\* TeamUP._request. The result: self after the call, the requests handed to
\* requests.request, and how the call ended.
_request(self, method, resource, kwargs, t) ==
    LET url == self.base_url \o resource
        req == [method |-> method, url |-> url, headers |-> self.headers,
                timeout |-> REQUEST_TIMEOUT, kwargs |-> kwargs]
        ended ==
            IF t.kind = "failure"
            THEN Raise(t.exc, t.message)
            ELSE IF raises_for_status(t.status_code)
            THEN Raise("RequestException", failure_message(method, url, t))
            ELSE IF ~t.body.decodable
            THEN IF t.body.decode_exc = "RequestException"
                 THEN Raise("RequestException", failure_message(method, url, t))
                 ELSE Raise("JSONDecodeError", "Expecting value: line 1 column 1 (char 0)")
            ELSE Return(t.body.json)
    IN  [self |-> self, reached |-> TRUE, requests |-> requests_issued(req, t),
         outcome |-> ended]

\* r[key] on the value a call returned; a raise passes through
subscript(r, key) ==
    IF r.outcome.kind # "return" THEN r
    ELSE IF ~IsDict(r.outcome.value)
    THEN [r EXCEPT !.outcome = Raise("TypeError", "indices must be integers")]
    ELSE IF key \notin DOMAIN r.outcome.value.dict
    THEN [r EXCEPT !.outcome = Raise("KeyError", "'" \o key \o "'")]
    ELSE [r EXCEPT !.outcome = Return(r.outcome.value.dict[key])]

get(self, resource, params, t) ==
    _request(self, "GET", resource, [params |-> params], t)

put(self, resource, params, t) ==
    _request(self, "PUT", resource, [params |-> params], t)

delete(self, resource, params, t) ==
    _request(self, "DELETE", resource, [params |-> params], t)

post(self, resource, params, data, t) ==
    _request(self, "POST", resource, [params |-> params, json |-> data], t)

get_calendar(self, calendar_key_or_id, t) ==
    get(self, "calendars/" \o calendar_key_or_id, None, t)

get_subcalendars(self, calendar_key_or_id, t) ==
    subscript(get(self, calendar_key_or_id \o "/subcalendars", None, t), "subcalendars")

\* a loop that keeps going after a match and so answers the last one
RECURSIVE last_match(_, _)
last_match(sub_calendars, calendar_name) ==
    IF sub_calendars = <<>> THEN None
    ELSE LET rest == last_match(Tail(sub_calendars), calendar_name)
         IN  IF rest # None THEN rest
             ELSE IF Head(sub_calendars).dict.name = PyStr(calendar_name)
             THEN Head(sub_calendars).dict.id
             ELSE None

\* the loop of get_subcalendar_by_name over sub_calendars
RECURSIVE first_match(_, _)
first_match(sub_calendars, calendar_name) ==
    IF sub_calendars = <<>> THEN None
    ELSE IF Head(sub_calendars).dict.name = PyStr(calendar_name)
    THEN Head(sub_calendars).dict.id
    ELSE first_match(Tail(sub_calendars), calendar_name)

get_subcalendar_by_name(self, calendar_key_or_id, calendar_name, t) ==
    LET r == get_subcalendars(self, calendar_key_or_id, t)
    IN  IF r.outcome.kind # "return" THEN r
        ELSE IF ~IsList(r.outcome.value)
        THEN [r EXCEPT !.outcome = Raise("TypeError", "not iterable")]
        ELSE [r EXCEPT !.outcome = Return(first_match(r.outcome.value.list, calendar_name))]

get_calendar_events(self, calendar_key_or_id, query, t) ==
    subscript(get(self, calendar_key_or_id \o "/events", query, t), "events")

\* a check of the argument's keys where the code checks its class
has_event_fields(calendar_event) == DOMAIN calendar_event.fields = EventFields

\* isinstance(calendar_event, self.CalendarEvent)
is_calendar_event(calendar_event) == calendar_event.cls = "CalendarEvent"

create_calendar_event(self, calendar_key_or_id, calendar_event, t) ==
    IF ~is_calendar_event(calendar_event)
    THEN [self |-> self, reached |-> FALSE, requests |-> <<>>,
          outcome |-> Raise("BaseException",
              "The method create_calendar_event requires a CalendarEvent object.")]
    ELSE post(self, calendar_key_or_id \o "/events", None,
              PyDict(to_dict(calendar_event)), t)

\* the params of delete_calendar_event
deletion_params(recuring_deletion) ==
    [reddit |-> IF recuring_deletion # None THEN recuring_deletion.value ELSE None]

delete_calendar_event(self, calendar_key_or_id, event_id, recuring_deletion, t) ==
    subscript(delete(self, calendar_key_or_id \o "/events/" \o event_id,
                     PyDict(deletion_params(recuring_deletion)), t),
              "undo_id")

---------------------------------------------------------------------------
(* What callers pass in. *)

Identifiers == {MAIN_CALENDAR_IDENTIFIER, "ks1"}
Resources == {"calendars/" \o MAIN_CALENDAR_IDENTIFIER, MAIN_CALENDAR_IDENTIFIER \o "/events"}
Queries ==
    {None, PyDict([startDate |-> PyStr("2024-07-19"), endDate |-> PyStr("2024-07-19")])}
PostData == {None, PyDict([title |-> PyStr("testing new creation")])}
LookupNames == {"habit", "Habit", "work"}
DeletionTargets == {<<MAIN_CALENDAR_IDENTIFIER, "42">>, <<"ks1", "1714783406">>}
DeletionModes == {None} \cup RecurringDeletion

ExplicitStart == datetime(2024, 7, 19, 22, 0, 0, 0)
ExplicitEnd == datetime(2024, 7, 19, 23, 0, 0, 0)
NoKw == <<>>

\* the event of the module's __main__ block, and one with more fields set
MainEvent ==
    CalendarEvent(<<13458686>>, "testing new creation", ExplicitStart, ExplicitEnd,
                  NoKw, ExplicitStart, ExplicitStart)
NotedEvent ==
    CalendarEvent(<<1, 2>>, "standup", datetime(2024, 7, 9, 8, 5, 0, 250),
                  ExplicitEnd, [notes |-> PyStr("bring laptop"), all_day |-> TRUE],
                  ExplicitStart, ExplicitStart)

NoEvent == [cls |-> "NoneType", fields |-> <<>>]

\* arguments that are not CalendarEvent instances: a str, a dict with the
\* keys of an event, None, an int
NonEvents ==
    {[cls |-> "str", fields |-> PyStr("testing new creation")],
     [cls |-> "dict", fields |-> to_dict(MainEvent)],
     NoEvent,
     [cls |-> "int", fields |-> PyInt(42)]}

CreateArgs == {MainEvent, NotedEvent} \cup NonEvents

---------------------------------------------------------------------------
(* The wall clock. *)

FirstDay == 19
ClockDays == FirstDay..(FirstDay + MaxDays - 1)
ClockTimes == {<<0, 0, 0, 0>>, <<9, 5, 7, 123>>, <<23, 59, 59, 999999>>}
Instants ==
    {datetime(2024, 7, d, tm[1], tm[2], tm[3], tm[4]) : d \in ClockDays, tm \in ClockTimes}

---------------------------------------------------------------------------
(* Initial state: the process has started, the module is not imported. *)

Init ==
    /\ env \in {[TEAMUP_TOKEN |-> a, TEAMUP_BEARER_TOKEN |-> b] :
                    a \in {None, PyStr(""), PyStr("tok-1")},
                    b \in {None, PyStr(""), PyStr("bearer-1")}}
    /\ module = "unimported"
    /\ client = NoClient
    /\ nCalls = 0
    /\ nRequests = 0
    /\ call = NoCall
    /\ argAfter = <<>>
    /\ issued = <<>>
    /\ transport = NoTransport
    /\ outcome = NoOutcome
    /\ clock = datetime(2024, 7, FirstDay, 0, 0, 0, 0)
    /\ event = NoEvent
    /\ built = [event |-> NoEvent, start_default |-> FALSE, end_default |-> FALSE,
                now1 |-> ExplicitStart, now2 |-> ExplicitStart]
    /\ serialized = None

---------------------------------------------------------------------------
(* Import and construction. *)

\* import py_teamup_api.teamup_api: the module-level check
import_module ==
    /\ module = "unimported"
    /\ module' = IF secrets_missing THEN "EnvironmentError" ELSE "imported"
    /\ UNCHANGED <<env, client, nCalls, nRequests, call, argAfter, issued,
                   transport, outcome>>
    /\ UNCHANGED eventVars

\* TeamUP()
construct ==
    /\ module = "imported"
    /\ client' = TeamUP_init
    /\ UNCHANGED <<env, module, nCalls, nRequests, call, argAfter, issued,
                   transport, outcome>>
    /\ UNCHANGED eventVars

---------------------------------------------------------------------------
(* Calls of the public operations. *)

\* the state after a call: r is what the operation did, t what the transport did
Called(op, args, after, r, t) ==
    /\ call' = [op |-> op, args |-> args]
    /\ argAfter' = after
    /\ client' = r.self
    /\ nCalls' = nCalls + (IF r.reached THEN 1 ELSE 0)
    /\ nRequests' = nRequests + Len(r.requests)
    /\ issued' = r.requests
    /\ transport' = IF r.reached THEN t ELSE NoTransport
    /\ outcome' = r.outcome
    /\ UNCHANGED <<env, module>>
    /\ UNCHANGED eventVars

CanCall == client.exists /\ nCalls < MaxCalls

call_get ==
    /\ CanCall
    /\ \E resource \in Resources, params \in Queries, t \in Transports :
          LET args == [resource |-> resource, params |-> params]
          IN  Called("get", args, args, get(client, resource, params, t), t)

call_put ==
    /\ CanCall
    /\ \E resource \in Resources, params \in {None}, t \in Transports :
          LET args == [resource |-> resource, params |-> params]
          IN  Called("put", args, args, put(client, resource, params, t), t)

call_delete ==
    /\ CanCall
    /\ \E resource \in Resources, params \in {None}, t \in Transports :
          LET args == [resource |-> resource, params |-> params]
          IN  Called("delete", args, args, delete(client, resource, params, t), t)

call_post ==
    /\ CanCall
    /\ \E resource \in {MAIN_CALENDAR_IDENTIFIER \o "/events"}, data \in PostData,
          t \in Transports :
          LET args == [resource |-> resource, params |-> None, data |-> data]
          IN  Called("post", args, args, post(client, resource, None, data, t), t)

call_get_calendar ==
    /\ CanCall
    /\ \E id \in Identifiers, t \in Transports :
          LET args == [calendar_key_or_id |-> id]
          IN  Called("get_calendar", args, args, get_calendar(client, id, t), t)

call_get_subcalendars ==
    /\ CanCall
    /\ \E id \in Identifiers, t \in SubcalendarTransports :
          LET args == [calendar_key_or_id |-> id]
          IN  Called("get_subcalendars", args, args, get_subcalendars(client, id, t), t)

call_get_subcalendar_by_name ==
    /\ CanCall
    /\ \E id \in {MAIN_CALENDAR_IDENTIFIER}, name \in LookupNames,
          t \in SubcalendarTransports :
          LET args == [calendar_key_or_id |-> id, calendar_name |-> name]
          IN  Called("get_subcalendar_by_name", args, args,
                     get_subcalendar_by_name(client, id, name, t), t)

call_get_calendar_events ==
    /\ CanCall
    /\ \E id \in Identifiers, query \in Queries, t \in Transports :
          LET args == [calendar_key_or_id |-> id, query |-> query]
          IN  Called("get_calendar_events", args, args,
                     get_calendar_events(client, id, query, t), t)

call_create_calendar_event ==
    /\ CanCall
    /\ \E id \in {MAIN_CALENDAR_IDENTIFIER}, arg \in CreateArgs, t \in Transports :
          LET args == [calendar_key_or_id |-> id, calendar_event |-> arg]
              after == [args EXCEPT !.calendar_event =
                           IF is_calendar_event(arg) THEN to_dict_self(arg) ELSE arg]
          IN  Called("create_calendar_event", args, after,
                     create_calendar_event(client, id, arg, t), t)

call_delete_calendar_event ==
    /\ CanCall
    /\ \E target \in DeletionTargets, mode \in DeletionModes, t \in Transports :
          LET id == target[1]
              event_id == target[2]
              args == [calendar_key_or_id |-> id, event_id |-> event_id,
                       recuring_deletion |-> mode]
          IN  Called("delete_calendar_event", args, args,
                     delete_calendar_event(client, id, event_id, mode, t), t)

Next ==
    \/ import_module
    \/ construct
    \/ call_get
    \/ call_put
    \/ call_delete
    \/ call_post
    \/ call_get_calendar
    \/ call_get_subcalendars
    \/ call_get_subcalendar_by_name
    \/ call_get_calendar_events
    \/ call_create_calendar_event
    \/ call_delete_calendar_event

Spec == Init /\ [][Next]_vars

---------------------------------------------------------------------------
(* Constructing and serializing events while the clock runs. *)

\* time passes
tick ==
    /\ \E later \in Instants : DtLess(clock, later) /\ clock' = later
    /\ UNCHANGED <<event, built, serialized>>
    /\ UNCHANGED clientVars

\* TeamUP.CalendarEvent(...): each default factory reads the clock when it
\* runs, start_dt's at now1 and end_dt's at now2, and time may pass between
new_event ==
    /\ module = "imported"
    /\ \E ids \in {<<13458686>>, <<1, 2>>},
          start_dt \in {MISSING, ExplicitStart},
          end_dt \in {MISSING, ExplicitEnd},
          kw \in {NoKw, [notes |-> PyStr("bring laptop"), all_day |-> TRUE]},
          now1 \in Instants, now2 \in Instants :
          /\ DtLeq(clock, now1)
          /\ DtLeq(now1, now2)
          /\ event' = CalendarEvent(ids, "testing new creation", start_dt, end_dt,
                                    kw, now1, now2)
          /\ built' = [event |-> CalendarEvent(ids, "testing new creation", start_dt,
                                                end_dt, kw, now1, now2),
                       start_default |-> start_dt = MISSING,
                       end_default |-> end_dt = MISSING,
                       now1 |-> now1, now2 |-> now2]
          /\ clock' = now2
    /\ serialized' = None
    /\ UNCHANGED clientVars

\* event.to_dict()
event_to_dict ==
    /\ is_calendar_event(event)
    /\ serialized' = PyDict(to_dict(event))
    /\ event' = to_dict_self(event)
    /\ UNCHANGED <<clock, built>>
    /\ UNCHANGED clientVars

EventNext ==
    \/ import_module
    \/ tick
    \/ new_event
    \/ event_to_dict

EventSpec == Init /\ [][EventNext]_vars

---------------------------------------------------------------------------
(* The properties checked. What a call should have put on the wire is      *)
(* written out here from the API's request shapes, not taken from the      *)
(* operators above.                                                        *)

ApiBase == "https://api.teamup.com/"

CallMethod ==
    CASE call.op \in {"get", "get_calendar", "get_subcalendars",
                      "get_subcalendar_by_name", "get_calendar_events"} -> "GET"
      [] call.op = "put" -> "PUT"
      [] call.op \in {"delete", "delete_calendar_event"} -> "DELETE"
      [] call.op \in {"post", "create_calendar_event"} -> "POST"
      [] OTHER -> ""

CallResource ==
    CASE call.op \in {"get", "put", "delete", "post"} -> call.args.resource
      [] call.op = "get_calendar" -> "calendars/" \o call.args.calendar_key_or_id
      [] call.op \in {"get_subcalendars", "get_subcalendar_by_name"} ->
            call.args.calendar_key_or_id \o "/subcalendars"
      [] call.op \in {"get_calendar_events", "create_calendar_event"} ->
            call.args.calendar_key_or_id \o "/events"
      [] call.op = "delete_calendar_event" ->
            call.args.calendar_key_or_id \o "/events/" \o call.args.event_id
      [] OTHER -> ""

CallUrl == ApiBase \o CallResource

GotResponse == transport.kind = "response"
ErrorStatus == GotResponse /\ transport.status_code \in 400..599
Non2xxStatus == GotResponse /\ transport.status_code \notin 200..299

\* the call ended in an error whose message names method, URL, status and body
EndedInDescriptiveError ==
    /\ outcome.kind = "raise"
    /\ outcome.exc = "RequestException"
    /\ Contains(outcome.message, CallMethod)
    /\ Contains(outcome.message, CallUrl)
    /\ Contains(outcome.message, ToString(transport.status_code))
    /\ Contains(outcome.message, transport.body.text)

\* the body of the response parsed: the call's raw result on success
ParsedOk == GotResponse /\ ~ErrorStatus /\ transport.body.decodable

HeadersFromSecrets(h) ==
    /\ DOMAIN h = {"Teamup-Token", "Accept", "Authorization"}
    /\ h["Teamup-Token"] = env.TEAMUP_TOKEN.str
    /\ h["Accept"] = "application/json"
    /\ h["Authorization"] = "Bearer " \o env.TEAMUP_BEARER_TOKEN.str

\* C1, as claimed: every response with a status outside 200-299 (1xx, 3xx, 4xx
\* and 5xx alike) ends the operation in an error naming the method, the
\* resolved URL, the status code and the raw body.
C1_AnyNon2xxRaises == Non2xxStatus => EndedInDescriptiveError

\* C1, amended: every response with a status in 400-599 ends the operation in
\* an error, never a value, whose message contains the method, the resolved
\* URL, the status code and the raw body.
C1_ErrorStatusRaises == ErrorStatus => EndedInDescriptiveError

C1_Witness ==
    /\ call.op = "delete_calendar_event"
    /\ GotResponse
    /\ transport.status_code = 404
    /\ transport.body.text = "{\"error\": {\"id\": \"not_found\"}}"
    /\ outcome.kind = "raise"

\* C2: when the transport fails and no response is obtained, the operation
\* surfaces the wrapped error carrying method and URL, not the bare transport
\* exception, and the request is issued once.
C2_TransportFailureWrapped ==
    transport.kind = "failure" =>
        /\ outcome.kind = "raise"
        /\ outcome.exc = "RequestException"
        /\ Contains(outcome.message, CallMethod)
        /\ Contains(outcome.message, CallUrl)
        /\ Len(issued) = 1

\* C3: with either secret absent or empty the import fails, no client exists
\* and no request is ever issued; with both present the import succeeds and a
\* constructed client carries the three headers made from the secrets, having
\* issued no request.
C3_SecretsCheckedBeforeConstruction ==
    IF Falsy(env.TEAMUP_TOKEN) \/ Falsy(env.TEAMUP_BEARER_TOKEN)
    THEN /\ module \in {"unimported", "EnvironmentError"}
         /\ ~client.exists
         /\ nRequests = 0
         /\ issued = <<>>
    ELSE /\ module \in {"unimported", "imported"}
         /\ client.exists => HeadersFromSecrets(client.headers)
         /\ (client.exists /\ call = NoCall) => nRequests = 0

C3_Witness ==
    /\ env.TEAMUP_TOKEN = PyStr("")
    /\ env.TEAMUP_BEARER_TOKEN = PyStr("bearer-1")
    /\ module = "EnvironmentError"
    /\ ~client.exists
    /\ nRequests = 0

\* C4: create_calendar_event with an argument that is not a CalendarEvent
\* raises and issues no request; with a CalendarEvent it issues one POST to
\* <identifier>/events whose JSON body is the event's to_dict() mapping and
\* returns the parsed response unchanged.
C4_CreateRequiresCalendarEvent ==
    call.op = "create_calendar_event" =>
        LET arg == call.args.calendar_event
        IN  IF arg.cls # "CalendarEvent"
            THEN /\ outcome.kind = "raise"
                 /\ issued = <<>>
                 /\ transport.kind = "none"
            ELSE /\ Len(issued) = 1
                 /\ issued[1].method = "POST"
                 /\ issued[1].url = ApiBase \o call.args.calendar_key_or_id \o "/events"
                 /\ issued[1].kwargs.json = PyDict(to_dict(arg))
                 /\ ParsedOk => outcome = Return(transport.body.json)

C4_Witness ==
    /\ call.op = "create_calendar_event"
    /\ call.args.calendar_event.cls = "dict"
    /\ DOMAIN call.args.calendar_event.fields = EventFields
    /\ outcome.kind = "raise"
    /\ nRequests = 0

\* C5: get_subcalendar_by_name answers the id of the lowest-index record whose
\* name equals the given name exactly, and None when no record matches.
C5_FirstExactMatchOrNone ==
    (/\ call.op = "get_subcalendar_by_name"
     /\ ParsedOk
     /\ "subcalendars" \in DOMAIN transport.body.json.dict) =>
        LET l == transport.body.json.dict.subcalendars.list
            hits == {i \in 1..Len(l) : l[i].dict.name.str = call.args.calendar_name}
            first == CHOOSE i \in hits : \A j \in hits : i <= j
        IN  /\ outcome.kind = "return"
            /\ outcome.value = IF hits = {} THEN None ELSE l[first].dict.id

C5_Witness ==
    /\ call.op = "get_subcalendar_by_name"
    /\ call.args.calendar_name = "habit"
    /\ ParsedOk
    /\ transport.body.json =
          PyDict([subcalendars |-> PyList(<<Subcalendar(1, "habit"), Subcalendar(2, "habit")>>)])
    /\ outcome = Return(PyInt(1))

\* the name the remote API gives the recurring-deletion scope parameter
RemoteScopeParam == "redit"

\* the query parameters requests puts on the wire: entries whose value is
\* None are left out
SentParams(params) ==
    IF IsNone(params) THEN {}
    ELSE {k \in DOMAIN params.dict : ~IsNone(params.dict[k])}

\* C6: delete_calendar_event issues one DELETE to <identifier>/events/<event_id>
\* and returns the undo_id of the response; a mode is sent as the remote API's
\* scope parameter with the mode's value, and no scope value is sent without
\* a mode.
C6_DeleteSendsScope ==
    call.op = "delete_calendar_event" =>
        LET mode == call.args.recuring_deletion
            params == issued[1].kwargs.params
        IN  /\ Len(issued) = 1
            /\ issued[1].method = "DELETE"
            /\ issued[1].url = ApiBase \o call.args.calendar_key_or_id
                                \o "/events/" \o call.args.event_id
            /\ (ParsedOk /\ "undo_id" \in DOMAIN transport.body.json.dict) =>
                   outcome = Return(transport.body.json.dict.undo_id)
            /\ IF mode = None
               THEN SentParams(params) = {}
               ELSE /\ RemoteScopeParam \in SentParams(params)
                    /\ params.dict[RemoteScopeParam] = mode.value

C8_DefaultsAreOneDay ==
    (is_calendar_event(event) /\ built.start_default /\ built.end_default) =>
        LET today == built.now1
            start == event.fields.start_dt
            end == event.fields.end_dt
        IN  /\ start = datetime(today.year, today.month, today.day, 0, 0, 0, 0)
            /\ end = datetime(today.year, today.month, today.day, 23, 59, 59, 0)
            /\ date(start) = date(end)
            /\ DtLess(start, end)

TwelveFields ==
    {"subcalendar_ids", "title", "start_dt", "end_dt", "all_day", "rrule", "notes",
     "location", "who", "signup_enabled", "comments_enabled", "custom"}

IsDigits(s) == \A i \in 1..Len(s) : \E d \in 0..9 : SubSeq(s, i, i) = ToString(d)

RECURSIVE ParseInt(_)
ParseInt(s) ==
    IF s = "" THEN 0
    ELSE 10 * ParseInt(SubSeq(s, 1, Len(s) - 1))
         + (CHOOSE d \in 0..9 : ToString(d) = SubSeq(s, Len(s), Len(s)))

\* YYYY-MM-DDTHH:MM:SS, optionally followed by .ffffff
IsIso8601(s) ==
    /\ Len(s) \in {19, 26}
    /\ IsDigits(SubSeq(s, 1, 4)) /\ SubSeq(s, 5, 5) = "-"
    /\ IsDigits(SubSeq(s, 6, 7)) /\ SubSeq(s, 8, 8) = "-"
    /\ IsDigits(SubSeq(s, 9, 10)) /\ SubSeq(s, 11, 11) = "T"
    /\ IsDigits(SubSeq(s, 12, 13)) /\ SubSeq(s, 14, 14) = ":"
    /\ IsDigits(SubSeq(s, 15, 16)) /\ SubSeq(s, 17, 17) = ":"
    /\ IsDigits(SubSeq(s, 18, 19))
    /\ Len(s) = 26 => (SubSeq(s, 20, 20) = "." /\ IsDigits(SubSeq(s, 21, 26)))

\* the datetime an ISO-8601 string denotes
FromIso(s) ==
    datetime(ParseInt(SubSeq(s, 1, 4)), ParseInt(SubSeq(s, 6, 7)),
             ParseInt(SubSeq(s, 9, 10)), ParseInt(SubSeq(s, 12, 13)),
             ParseInt(SubSeq(s, 15, 16)), ParseInt(SubSeq(s, 18, 19)),
             IF Len(s) = 26 THEN ParseInt(SubSeq(s, 21, 26)) ELSE 0)

IsoOf(v, dt) == IsStr(v) /\ IsIso8601(v.str) /\ FromIso(v.str) = dt

\* C9: to_dict() returns a mapping of exactly the twelve fields, start_dt and
\* end_dt as the ISO-8601 strings of the event's datetimes and every other
\* field with the event's value, None included, and leaves the event as it
\* was constructed.
C9_ToDictSerializes ==
    /\ event = built.event
    /\ serialized # None =>
          LET d == serialized.dict
              e == built.event.fields
          IN  /\ DOMAIN d = TwelveFields
              /\ IsoOf(d.start_dt, e.start_dt)
              /\ IsoOf(d.end_dt, e.end_dt)
              /\ \A f \in TwelveFields \ {"start_dt", "end_dt"} : d[f] = e[f]

C9_Witness ==
    /\ serialized # None
    /\ built.start_default
    /\ ~built.end_default
    /\ serialized.dict.rrule = None
    /\ serialized.dict.notes = PyStr("bring laptop")
    /\ serialized.dict.end_dt = PyStr("2024-07-19T23:00:00")

\* C10: no operation changes local state: the client keeps the base URL and
\* the three headers of its construction, the caller's arguments are after
\* the call what they were before it, and every request carries those headers.
C10_NoLocalStateMutated ==
    /\ argAfter = call.args
    /\ client.exists =>
          /\ client.base_url = ApiBase
          /\ HeadersFromSecrets(client.headers)
    /\ \A i \in 1..Len(issued) : HeadersFromSecrets(issued[i].headers)

C10_Witness ==
    /\ nCalls = 2
    /\ call.op = "create_calendar_event"
    /\ call.args.calendar_event = NotedEvent
    /\ argAfter.calendar_event = NotedEvent
    /\ ErrorStatus
    /\ outcome.kind = "raise"

====
